---- MODULE Spec2Model ----
(***************************************************************************)
(* A model of the pcregexp package (PCREgexp over PCRE2) and of the        *)
(* pattern classifier of pkg/regexp.                                       *)
(*                                                                         *)
(* Strings and byte slices are sequences of byte values (0..255); a Go     *)
(* slice expression s[a:b] is Slice(s, a, b), s[a:] is From(s, a).  A nil  *)
(* slice and an empty slice are both the empty sequence.                   *)
(***************************************************************************)
EXTENDS Integers, Sequences, FiniteSets, TLC

\* ------------------------------------------------------------------ bounds
MaxLen == 3        \* longest subject
MaxN == 2          \* largest positive limit n handed to FindAll* and Split
MaxPatLen == 4     \* longest pattern text handed to the classifier
MaxLeaks == 2      \* most native objects followed once nothing points to them
MaxCloses == 2     \* most calls of Close on one handle

\* ------------------------------------------------------------ byte strings
Slice(s, a, b) == SubSeq(s, a + 1, b)
From(s, a) == SubSeq(s, a + 1, Len(s))

RECURSIVE SeqsUpTo(_, _)
SeqsUpTo(S, k) ==
  IF k = 0 THEN {<<>>}
  ELSE LET shorter == SeqsUpTo(S, k - 1)
       IN shorter \cup {Append(s, c) : s \in shorter, c \in S}

\* 'a', 'b', and the two bytes of U+00E9 (0xC3 0xA9): alone or out of order
\* the latter two are invalid UTF-8.
SubjectBytes == {97, 98, 195, 169}
Subjects == SeqsUpTo(SubjectBytes, MaxLen)
Limits == (-1) .. MaxN

\* utf8.RuneError
RuneError == 65533

\* utf8.DecodeRuneInString / utf8.DecodeRune, for one- and two-byte encodings
\* (no byte of SubjectBytes leads a longer one): the rune and its width, or
\* (RuneError, 1) for an invalid encoding and (RuneError, 0) for no input.
DecodeRune(p) ==
  IF Len(p) = 0 THEN [r |-> RuneError, size |-> 0]
  ELSE IF p[1] < 128 THEN [r |-> p[1], size |-> 1]
  ELSE IF p[1] \in 194..223 /\ Len(p) >= 2 /\ p[2] \in 128..191
       THEN [r |-> (p[1] - 192) * 64 + (p[2] - 128), size |-> 2]
  ELSE [r |-> RuneError, size |-> 1]

\* ------------------------------------------------------- the PCRE2 engine
\* PCRE2_SIZE is unsigned; the model keeps it 16 bits wide.  PCRE2_UNSET is
\* ~(PCRE2_SIZE)0 and the conversion int(*ptr) wraps it to -1.
SizeModulus == 2 ^ 16
PCRE2_UNSET == SizeModulus - 1
int(u) == IF u >= SizeModulus \div 2 THEN u - SizeModulus ELSE u

PCRE2_ERROR_NOMATCH == -1

Lit(c) == [t |-> "lit", c |-> c]
Eps == [t |-> "eps"]
Bol == [t |-> "bol"]
Lookbehind(c) == [t |-> "lookbehind", c |-> c]
Cat(l, r) == [t |-> "cat", l |-> l, r |-> r]
Alt(l, r) == [t |-> "alt", l |-> l, r |-> r]
Star(r) == [t |-> "star", r |-> r]
Grp(k, r) == [t |-> "grp", k |-> k, r |-> r]

\* The patterns the model compiles, by source text.
Patterns == {"a", "a*", "(a)(b)", "(a)|b", "(a)|(b)", "^a", "(?<=a)b", ""}

\* pcre2_compile: the compiled form of a pattern.
Ast(p) ==
  CASE p = "a" -> Lit(97)
    [] p = "a*" -> Star(Lit(97))
    [] p = "(a)(b)" -> Cat(Grp(1, Lit(97)), Grp(2, Lit(98)))
    [] p = "(a)|b" -> Alt(Grp(1, Lit(97)), Lit(98))
    [] p = "(a)|(b)" -> Alt(Grp(1, Lit(97)), Grp(2, Lit(98)))
    [] p = "^a" -> Cat(Bol, Lit(97))
    [] p = "(?<=a)b" -> Cat(Lookbehind(97), Lit(98))
    [] p = "" -> Eps

\* The number of capturing groups of a pattern (the ovector of match data
\* created from the pattern has CaptureCount + 1 pairs).
CaptureCount(p) ==
  CASE p \in {"(a)(b)", "(a)|(b)"} -> 2
    [] p = "(a)|b" -> 1
    [] OTHER -> 0

NoCaps == <<PCRE2_UNSET, PCRE2_UNSET, PCRE2_UNSET, PCRE2_UNSET>>

\* Backtracking match of node r on s at offset i with captures caps: the
\* ways it can match, in the order PCRE2 tries them (first alternative
\* first, greedy repetition), each the end offset and the captures then.
RECURSIVE M(_, _, _, _), Then(_, _, _, _), Again(_, _, _, _, _)
M(r, s, i, caps) ==
  CASE r.t = "lit" ->
         IF i < Len(s) /\ s[i + 1] = r.c THEN <<[pos |-> i + 1, caps |-> caps]>> ELSE <<>>
    [] r.t = "eps" -> <<[pos |-> i, caps |-> caps]>>
    [] r.t = "bol" -> IF i = 0 THEN <<[pos |-> i, caps |-> caps]>> ELSE <<>>
    [] r.t = "lookbehind" ->
         IF i > 0 /\ s[i] = r.c THEN <<[pos |-> i, caps |-> caps]>> ELSE <<>>
    [] r.t = "cat" -> Then(M(r.l, s, i, caps), 1, r.r, s)
    [] r.t = "alt" -> M(r.l, s, i, caps) \o M(r.r, s, i, caps)
    [] r.t = "star" -> Again(M(r.r, s, i, caps), 1, r, s, i) \o <<[pos |-> i, caps |-> caps]>>
    [] r.t = "grp" ->
         LET inner == M(r.r, s, i, caps)
         IN [j \in 1..Len(inner) |->
               [pos |-> inner[j].pos,
                caps |-> [inner[j].caps EXCEPT ![2 * r.k - 1] = i, ![2 * r.k] = inner[j].pos]]]

Then(L, j, rest, s) ==
  IF j > Len(L) THEN <<>>
  ELSE M(rest, s, L[j].pos, L[j].caps) \o Then(L, j + 1, rest, s)

Again(L, j, star, s, i) ==
  IF j > Len(L) THEN <<>>
  ELSE (IF L[j].pos > i THEN M(star, s, L[j].pos, L[j].caps) ELSE <<>>)
       \o Again(L, j + 1, star, s, i)

\* The highest numbered group that captured, 0 when none did.
TopGroup(caps) ==
  IF caps[3] # PCRE2_UNSET THEN 2 ELSE IF caps[1] # PCRE2_UNSET THEN 1 ELSE 0

\* The offsets at which the pattern matches the subject.
matchStarts(p, subject) ==
  {i \in 0..Len(subject) : M(Ast(p), subject, i, NoCaps) # <<>>}

\* What pcre2_match leaves for the match m found at offset i: the return
\* value is one more than the highest numbered group that captured, the
\* ovector holds the match's offsets and then each group's.
matchFound(p, i, m) ==
  [ret |-> TopGroup(m.caps) + 1,
   ovector |-> <<i, m.pos>> \o SubSeq(m.caps, 1, 2 * CaptureCount(p))]

\* The match at offset i: the first way the backtracking finds.
matchAt(p, subject, i) == matchFound(p, i, M(Ast(p), subject, i, NoCaps)[1])

\* The leftmost of the offsets starts, or PCRE2_ERROR_NOMATCH when none.
matchLeftmost(p, subject, starts) ==
  IF starts = {} THEN [ret |-> PCRE2_ERROR_NOMATCH, ovector |-> <<>>]
  ELSE matchAt(p, subject, CHOOSE x \in starts : \A y \in starts : x <= y)

\* pcre2_match(code, subject, length, 0, 0, md, 0): the leftmost match.
pcre2_match(p, subject) == matchLeftmost(p, subject, matchStarts(p, subject))

\* ----------------------------------------------------------------- state
VARIABLES
  re,        \* the PCREgexp: pattern, buf, code, matchData
  subject,   \* the subject the caller queries with
  pc,        \* "idle": between calls; "returned": a call has returned;
             \* "Split": inside Split's loop
  last,      \* the call that returned last: op, n, repl, out (its result)
  split,     \* Split's locals: n, pos, parts
  clsPattern,  \* the pattern text handed to the classifier
  clsVerdict,  \* what the classifier answered: "none", "Native", "Backtracking"
  rx,        \* the facade Regexp: regexp, pcregexp, pattern
  heap,      \* the native library's side: how often each of the handle's
             \* objects was handed to pcre2_code_free / pcre2_match_data_free
  held,      \* an offsets slice a caller keeps from an earlier call
  threads    \* goroutines inside match on the one PCREgexp: whether the
             \* callers serialize their calls, the ovector of the match data
             \* block, and each goroutine's position and locals

vars == <<re, subject, pc, last, split, clsPattern, clsVerdict, rx, heap, held, threads>>

\* ------------------------------------------------- PCREgexp: the handle
\* Compile of a pattern PCRE2 accepts: &PCREgexp{code: code, pattern: pattern}.
\* The model has one live pcre2_code and one match data object at a time;
\* 1 stands for their addresses, 0 is the null pointer.  mem is the Go heap
\* behind buf: the arrays match has made for it, oldest first; buf is a
\* slice of the last one, whose length is cap(buf).
Compile(p) == [pattern |-> p, buf |-> <<>>, code |-> 1, matchData |-> 0, mem |-> <<>>]

\* cap(re.buf)
cap(r) == IF r.mem = <<>> THEN 0 ELSE Len(r.mem[Len(r.mem)])

\* re.buf made anew or re-sliced to the length of offsets, then filled with
\* them:
\*   if cap(re.buf) < reqLen { re.buf = make([]int, reqLen) }
\*   else { re.buf = re.buf[:reqLen] }
fillBuf(r, offsets) ==
  IF cap(r) < Len(offsets)
  THEN [r EXCEPT !.buf = offsets, !.mem = Append(@, offsets)]
  ELSE [r EXCEPT !.buf = offsets,
                 !.mem[Len(r.mem)] = offsets \o SubSeq(@, Len(offsets) + 1, Len(@))]

\* saveMatchData: the receiver with its match data created if it had none.
saveMatchData(r) == IF r.matchData = 0 THEN [r EXCEPT !.matchData = 1] ELSE r

\* match from the pcre2_match call on: m is what the engine answered, r1 the
\* receiver with its match data.  buf is re.buf filled from the ovector.
matchOffsets(r1, m) ==
  IF r1.matchData = 0 THEN [idx |-> <<>>, re |-> r1]
  ELSE IF m.ret < 0 THEN [idx |-> <<>>, re |-> r1]
  ELSE LET reqLen == m.ret * 2
           buf == [i \in 1..reqLen |-> int(m.ovector[i])]
       IN [idx |-> buf, re |-> fillBuf(r1, buf)]

\* saveMatchData when pcre2_match_data_create_from_pattern returns md (0 when
\* the library cannot allocate), and match when it does and pcre2_match
\* answers m.
created(r, md) == IF r.matchData = 0 THEN [r EXCEPT !.matchData = md] ELSE r

matchGivenAnyCode(r, subj, md, m) ==
  IF Len(subj) = 0 THEN [idx |-> <<>>, re |-> r]
  ELSE matchOffsets(created(r, md), m)

matchGiven(r, subj, md, m) ==
  IF r.code = 0 \/ Len(subj) = 0 THEN [idx |-> <<>>, re |-> r]
  ELSE matchOffsets(created(r, md), m)

\* match: the offsets it returns (nil is <<>>) and the receiver afterwards.
match(r, subj) ==
  IF r.code = 0 \/ Len(subj) = 0 THEN [idx |-> <<>>, re |-> r]
  ELSE matchOffsets(saveMatchData(r), pcre2_match(r.pattern, subj))

\* ------------------------------------------------ PCREgexp: the FindAll* family
\* The tail of every FindAll*String/FindAll*Index loop body: how many bytes of
\* remaining the iteration consumes, or -1 when it breaks out of the loop.
\*   if indexes[0] == indexes[1] {
\*       if indexes[1] >= len(remaining) { break }
\*       _, size := utf8.DecodeRuneInString(remaining[indexes[1]:])
\*       remaining = remaining[indexes[1]+size:]
\*   } else { remaining = remaining[indexes[1]:] }
consumedPastStart(remaining, indexes) ==
  IF indexes[1] = indexes[2]
  THEN IF indexes[2] >= Len(remaining) THEN -1
       ELSE indexes[2] + DecodeRune(From(remaining, indexes[2])).size
  ELSE indexes[1] + 1

consumedOneByte(remaining, indexes) ==
  IF indexes[1] = indexes[2]
  THEN IF indexes[2] >= Len(remaining) THEN -1 ELSE indexes[2] + 1
  ELSE indexes[2]

consumedInPlace(remaining, indexes) ==
  IF indexes[1] = indexes[2]
  THEN IF indexes[2] >= Len(remaining) THEN -1 ELSE indexes[2]
  ELSE indexes[2]

consumed(remaining, indexes) ==
  IF indexes[1] = indexes[2]
  THEN IF indexes[2] >= Len(remaining) THEN -1
       ELSE indexes[2] + DecodeRune(From(remaining, indexes[2])).size
  ELSE indexes[2]

\* FindAllString / FindAll: the loop from its state (remaining, n, matches),
\* and its body once match has answered m.
RECURSIVE FindAllStringLoop(_, _, _, _)
FindAllStringBody(m, remaining, n, matches) ==
  IF Len(m.idx) < 2 THEN [ret |-> matches, re |-> m.re]
  ELSE LET matches1 == Append(matches, Slice(remaining, m.idx[1], m.idx[2]))
           c == consumed(remaining, m.idx)
       IN IF c < 0 THEN [ret |-> matches1, re |-> m.re]
          ELSE FindAllStringLoop(m.re, From(remaining, c), n - 1, matches1)

FindAllStringLoop(r, remaining, n, matches) ==
  IF n = 0 THEN [ret |-> matches, re |-> r]
  ELSE FindAllStringBody(match(r, remaining), remaining, n, matches)

FindAllStringNoCountdown(r, s, n) ==
  FindAllStringLoop(r, s, IF n = 0 THEN 0 ELSE -1, <<>>)

FindAllString(r, s, n) == FindAllStringLoop(r, s, n, <<>>)
FindAll(r, b, n) == FindAllStringLoop(r, b, n, <<>>)

\* FindStringSubmatch from the match call on: the match and group texts
\* (nil is <<>>), "" for a group whose offsets are negative.
submatchTexts(m, s) ==
  IF Len(m.idx) < 2 THEN [ret |-> <<>>, re |-> m.re]
  ELSE [ret |-> [i \in 1..(Len(m.idx) \div 2) |->
                   IF m.idx[2 * i - 1] < 0 \/ m.idx[2 * i] < 0 THEN <<>>
                   ELSE Slice(s, m.idx[2 * i - 1], m.idx[2 * i])],
        re |-> m.re]

FindStringSubmatch(r, s) == submatchTexts(match(r, s), s)

\* FindSubmatch: the same over bytes (a group that did not participate is nil).
FindSubmatch(r, b) == FindStringSubmatch(r, b)

\* FindAllStringSubmatch / FindAllSubmatch: the loop from (remaining, n,
\* results), and its body once FindStringSubmatch has answered f.
RECURSIVE FindAllStringSubmatchLoop(_, _, _, _)
FindAllStringSubmatchBody(f, remaining, n, results) ==
  IF f.ret = <<>> THEN [ret |-> results, re |-> f.re]
  ELSE LET results1 == Append(results, f.ret)
       IN IF Len(f.ret[1]) = 0
          THEN IF Len(remaining) = 0 THEN [ret |-> results1, re |-> f.re]
               ELSE FindAllStringSubmatchLoop(
                      f.re, From(remaining, DecodeRune(remaining).size), n - 1, results1)
          ELSE FindAllStringSubmatchLoop(
                 f.re, From(remaining, Len(f.ret[1])), n - 1, results1)

FindAllStringSubmatchLoop(r, remaining, n, results) ==
  IF n = 0 THEN [ret |-> results, re |-> r]
  ELSE FindAllStringSubmatchBody(FindStringSubmatch(r, remaining), remaining, n, results)

FindAllStringSubmatch(r, s, n) == FindAllStringSubmatchLoop(r, s, n, <<>>)
FindAllSubmatch(r, b, n) == FindAllStringSubmatchLoop(r, b, n, <<>>)

\* adjIndexes of FindAllStringIndex / FindAllIndex: the first pair, shifted.
adjIndexes2(indexes, offset) == <<indexes[1] + offset, indexes[2] + offset>>

\* adjIndexes of FindAll*SubmatchIndex: every defined offset shifted.
adjIndexesAllShifted(indexes, offset) == [i \in 1..Len(indexes) |-> indexes[i] + offset]

adjIndexesAll(indexes, offset) ==
  [i \in 1..Len(indexes) |-> IF indexes[i] >= 0 THEN indexes[i] + offset ELSE indexes[i]]

\* FindAllStringIndex / FindAllIndex: the loop from (remaining, offset, n,
\* results), and its body once match has answered m.
RECURSIVE FindAllStringIndexLoop(_, _, _, _, _)
FindAllStringIndexBody(m, remaining, offset, n, results) ==
  IF Len(m.idx) < 2 THEN [ret |-> results, re |-> m.re]
  ELSE LET results1 == Append(results, adjIndexes2(m.idx, offset))
           c == consumed(remaining, m.idx)
       IN IF c < 0 THEN [ret |-> results1, re |-> m.re]
          ELSE FindAllStringIndexLoop(m.re, From(remaining, c), offset + c, n - 1, results1)

FindAllStringIndexLoop(r, remaining, offset, n, results) ==
  IF n = 0 THEN [ret |-> results, re |-> r]
  ELSE FindAllStringIndexBody(match(r, remaining), remaining, offset, n, results)

FindAllStringIndex(r, s, n) == FindAllStringIndexLoop(r, s, 0, n, <<>>)
FindAllIndex(r, b, n) == FindAllStringIndexLoop(r, b, 0, n, <<>>)

\* FindAllStringSubmatchIndex / FindAllSubmatchIndex: the loop, and its body
\* once match has answered m.
RECURSIVE FindAllStringSubmatchIndexLoop(_, _, _, _, _)
FindAllStringSubmatchIndexBody(m, remaining, offset, n, results) ==
  IF Len(m.idx) < 2 THEN [ret |-> results, re |-> m.re]
  ELSE LET results1 == Append(results, adjIndexesAll(m.idx, offset))
           c == consumed(remaining, m.idx)
       IN IF c < 0 THEN [ret |-> results1, re |-> m.re]
          ELSE FindAllStringSubmatchIndexLoop(
                 m.re, From(remaining, c), offset + c, n - 1, results1)

FindAllStringSubmatchIndexLoop(r, remaining, offset, n, results) ==
  IF n = 0 THEN [ret |-> results, re |-> r]
  ELSE FindAllStringSubmatchIndexBody(match(r, remaining), remaining, offset, n, results)

FindAllStringSubmatchIndex(r, s, n) == FindAllStringSubmatchIndexLoop(r, s, 0, n, <<>>)
FindAllSubmatchIndex(r, b, n) == FindAllStringSubmatchIndexLoop(r, b, 0, n, <<>>)

\* ------------------------------------------------------- PCREgexp: Find*
\* FindString / Find from the match call on: the text of the match, "" (nil)
\* when there is none.
matchedText(m, s) ==
  IF Len(m.idx) < 2 THEN [ret |-> <<>>, re |-> m.re]
  ELSE [ret |-> Slice(s, m.idx[1], m.idx[2]), re |-> m.re]

FindString(r, s) == matchedText(match(r, s), s)
Find(r, b) == matchedText(match(r, b), b)

\* FindStringIndex, FindIndex, FindSubmatchIndex, FindStringSubmatchIndex:
\* return re.match(...), the slice re.buf itself.
offsets(m) == [ret |-> m.idx, re |-> m.re]
FindIndex(r, b) == offsets(match(r, b))
FindSubmatchIndex(r, b) == offsets(match(r, b))
FindStringSubmatchIndex(r, s) == offsets(match(r, s))

\* ------------------------------------------------ PCREgexp: Match, Replace
\* match(...) != nil
matched(m) == [ret |-> m.idx # <<>>, re |-> m.re]
MatchString(r, s) == matched(match(r, s))
Match(r, b) == matched(match(r, b))

\* ReplaceAllString: the loop from (remaining, b), b the strings.Builder, and
\* its body once match has answered m.
RECURSIVE ReplaceAllStringLoop(_, _, _, _)
ReplaceAllStringBody(m, remaining, repl, b) ==
  IF Len(m.idx) < 2 \/ m.idx[1] < 0 THEN [ret |-> b \o remaining, re |-> m.re]
  ELSE LET b1 == b \o Slice(remaining, 0, m.idx[1]) \o repl
       IN IF m.idx[1] = m.idx[2]
          THEN IF m.idx[2] < Len(remaining)
               THEN LET d == DecodeRune(From(remaining, m.idx[2]))
                    IN IF d.r = RuneError \/ d.size = 0
                       THEN [ret |-> b1 \o From(remaining, m.idx[2]), re |-> m.re]
                       ELSE ReplaceAllStringLoop(
                              m.re, From(remaining, m.idx[2] + d.size), repl,
                              b1 \o Slice(remaining, m.idx[2], m.idx[2] + d.size))
               ELSE ReplaceAllStringLoop(m.re, <<>>, repl, b1)
          ELSE ReplaceAllStringLoop(m.re, From(remaining, m.idx[2]), repl, b1)

ReplaceAllStringLoop(r, remaining, repl, b) ==
  ReplaceAllStringBody(match(r, remaining), remaining, repl, b)

ReplaceAllString(r, src, repl) ==
  IF src = <<>> THEN [ret |-> <<>>, re |-> r] ELSE ReplaceAllStringLoop(r, src, repl, <<>>)

\* The functions handed to ReplaceAllFunc / ReplaceAllStringFunc: the
\* identity, x -> "<" x ">", and x -> "".
Repls == {"identity", "bracket", "drop"}
ApplyRepl(f, x) ==
  CASE f = "identity" -> x
    [] f = "bracket" -> <<60>> \o x \o <<62>>
    [] f = "drop" -> <<>>

\* ReplaceAllFunc / ReplaceAllStringFunc: the loop from (remaining, b), and
\* its body once match has answered m; calls are the arguments repl was
\* called with, in order.  lastMatchEnd is 0 throughout.
RECURSIVE ReplaceAllFuncLoop(_, _, _, _, _)
ReplaceAllFuncBody(m, remaining, f, b, calls) ==
  IF Len(m.idx) < 2 THEN [ret |-> b \o From(remaining, 0), re |-> m.re, calls |-> calls]
  ELSE LET b1 == b \o Slice(remaining, 0, m.idx[1])
                   \o ApplyRepl(f, Slice(remaining, m.idx[1], m.idx[2]))
           calls1 == Append(calls, Slice(remaining, m.idx[1], m.idx[2]))
       IN IF m.idx[1] = m.idx[2]
          THEN IF m.idx[2] >= Len(remaining)
               THEN [ret |-> b1, re |-> m.re, calls |-> calls1]
               ELSE LET d == DecodeRune(From(remaining, m.idx[2]))
                    IN IF d.r = RuneError
                       THEN [ret |-> b1 \o From(remaining, m.idx[2]), re |-> m.re,
                             calls |-> calls1]
                       ELSE ReplaceAllFuncLoop(
                              m.re, From(remaining, m.idx[2] + d.size), f,
                              b1 \o Slice(remaining, m.idx[2], m.idx[2] + d.size), calls1)
          ELSE ReplaceAllFuncLoop(m.re, From(remaining, m.idx[2]), f, b1, calls1)

ReplaceAllFuncLoop(r, remaining, f, b, calls) ==
  ReplaceAllFuncBody(match(r, remaining), remaining, f, b, calls)

ReplaceAllFunc(r, src, f) == ReplaceAllFuncLoop(r, src, f, <<>>, <<>>)
ReplaceAllStringFunc(r, src, f) == ReplaceAllFuncLoop(r, src, f, <<>>, <<>>)

\* ReplaceAll: ReplaceAllString on string(src), string(repl), viewed as bytes.
ReplaceAll(r, src, repl) == ReplaceAllString(r, src, repl)

\* expand: the loop of Expand / ExpandString from template index i: dst, or
\* a panic when src[match[2*group]:match[2*group+1]] panics.
RECURSIVE digitsEnd(_, _), groupOf(_, _, _, _), expandFrom(_, _, _, _, _)
digitsEndOne(template, i) == i + 1

digitsEnd(template, i) ==
  IF i < Len(template) /\ template[i + 1] >= 48 /\ template[i + 1] <= 57
  THEN digitsEnd(template, i + 1) ELSE i
groupOf(template, i, e, group) ==
  IF i >= e THEN group ELSE groupOf(template, i + 1, e, group * 10 + (template[i + 1] - 48))
expandFrom(dst, template, src, mtch, i) ==
  IF i >= Len(template) THEN [panic |-> FALSE, dst |-> dst]
  ELSE IF template[i + 1] = 36 /\ i + 1 < Len(template) /\ template[i + 2] = 36
       THEN expandFrom(Append(dst, 36), template, src, mtch, i + 2)
  ELSE IF template[i + 1] = 36 /\ i + 1 < Len(template)
          /\ template[i + 2] >= 48 /\ template[i + 2] <= 57
       THEN LET e == digitsEnd(template, i + 1)
                group == groupOf(template, i + 1, e, 0)
            IN IF 2 * group >= Len(mtch) THEN expandFrom(dst, template, src, mtch, e)
               ELSE IF 2 * group + 1 >= Len(mtch)
                    THEN [panic |-> TRUE, dst |-> dst]           \* index out of range
               ELSE LET lo == mtch[2 * group + 1]
                        hi == mtch[2 * group + 2]
                    IN IF lo < 0 \/ hi > Len(src) \/ lo > hi
                       THEN [panic |-> TRUE, dst |-> dst]        \* slice bounds out of range
                       ELSE expandFrom(dst \o Slice(src, lo, hi), template, src, mtch, e)
  ELSE expandFrom(Append(dst, template[i + 1]), template, src, mtch, i + 1)

expand(dst, template, src, mtch) == expandFrom(dst, template, src, mtch, 0)
Expand(dst, template, src, mtch) == expand(dst, template, src, mtch)
ExpandString(dst, template, src, mtch) == expand(dst, template, src, mtch)

\* ------------------------------------------------ pkg/regexp: the classifier
\* contains: the loop from index i with the escaped flag.
RECURSIVE containsFrom(_, _, _, _)
containsFrom(s, substr, i, escaped) ==
  IF i > Len(s) - Len(substr) THEN FALSE
  ELSE IF s[i + 1] = 92 THEN containsFrom(s, substr, i + 1, ~escaped)
  ELSE IF ~escaped /\ \A j \in 0..(Len(substr) - 1) : s[i + j + 1] = substr[j + 1] THEN TRUE
  ELSE containsFrom(s, substr, i + 1, FALSE)

containsPastFirst(s, substr) == containsFrom(s, substr, 1, FALSE)

contains(s, substr) == containsFrom(s, substr, 0, FALSE)

\* "(?=", "(?!", "(?<=", "(?<!"
lookarounds == {<<40, 63, 61>>, <<40, 63, 33>>, <<40, 63, 60, 61>>, <<40, 63, 60, 33>>}

countGroupsEscapedToo(p, i, escaped, groups) ==
  groups + Cardinality({k \in (i + 1)..Len(p) : p[k] = 40})

\* needsPCRE's first loop: the number of capturing groups counted from index i.
RECURSIVE countGroups(_, _, _, _)
countGroups(p, i, escaped, groups) ==
  IF i >= Len(p) THEN groups
  ELSE IF p[i + 1] = 92 THEN countGroups(p, i + 1, ~escaped, groups)
  ELSE IF ~escaped /\ p[i + 1] = 40
       THEN IF i + 2 < Len(p) /\ p[i + 2] = 63 /\ (p[i + 3] = 58 \/ p[i + 3] = 80)
            THEN countGroups(p, i + 1, escaped, groups)
            ELSE countGroups(p, i + 1, FALSE, groups + 1)
  ELSE countGroups(p, i + 1, FALSE, groups)

\* needsPCRE's second loop: whether a backreference is found from index i.
RECURSIVE hasBackreference(_, _, _)
hasBackreference(p, i, escaped) ==
  IF i >= Len(p) THEN FALSE
  ELSE IF p[i + 1] = 92
       THEN IF ~escaped /\ i + 1 < Len(p) /\ p[i + 2] >= 49 /\ p[i + 2] <= 57 THEN TRUE
            ELSE hasBackreference(p, i + 1, ~escaped)
  ELSE hasBackreference(p, i + 1, FALSE)

needsPCRENoGroupCount(p) ==
  IF \E l \in lookarounds : contains(p, l) THEN TRUE ELSE hasBackreference(p, 0, FALSE)

needsPCRE(p) ==
  IF \E l \in lookarounds : contains(p, l) THEN TRUE
  ELSE IF countGroups(p, 0, FALSE, 0) > 0 THEN hasBackreference(p, 0, FALSE)
  ELSE FALSE

\* The bytes \ ( ? = ! < : P 1 0 and the pattern texts of at most MaxPatLen
\* of them.
PatternBytes == {92, 40, 63, 61, 33, 60, 58, 80, 49, 48}
\* Each text also behind one more backslash, so that runs of both parities
\* stand before every text.
BackslashRuns == {<<>>, <<92>>}
PatternTexts == {run \o t : run \in BackslashRuns, t \in SeqsUpTo(PatternBytes, MaxPatLen)}

\* ------------------------------------------------------------- the calls
\* "$2$1", "$1", "$$", "x", ""
Templates == {<<36, 50, 36, 49>>, <<36, 49>>, <<36, 36>>, <<120>>, <<>>}

NoCall == [op |-> "none", n |-> 0, repl |-> <<>>, out |-> <<>>]
NoSplit == [n |-> 0, pos |-> 0, parts |-> <<>>]
\* Nothing freed yet and Close not yet called; the zero-value facade Regexp
\* (regexp is 0 for nil and 1 for a *regexp.Regexp, pcregexp is 0 for nil and
\* 1 for the address of the handle re); no slice kept.
NoFrees == [code |-> 0, matchData |-> 0, closes |-> 0, leaked |-> 0]
NoRegexp == [regexp |-> 0, pcregexp |-> 0, pattern |-> <<>>]
NoHeld == [arr |-> 0, len |-> 0, was |-> <<>>]
\* No goroutine is inside match.
NoThread == [pc |-> "idle", subject |-> <<>>, ret |-> 0, out |-> <<>>]
NoThreads == [serial |-> TRUE, ovector |-> <<>>, g |-> <<NoThread, NoThread>>]

\* A call that runs to its return in one step: out is the result and the
\* receiver afterwards.
Returns(op, n, repl, out) ==
  /\ pc = "idle"
  /\ re' = out.re
  /\ last' = [op |-> op, n |-> n, repl |-> repl, out |-> out.ret]
  /\ pc' = "returned"
  /\ UNCHANGED <<subject, split, clsPattern, clsVerdict, rx, heap, held, threads>>

CallMatchString == Returns("MatchString", 0, <<>>, MatchString(re, subject))
CallMatch == Returns("Match", 0, <<>>, Match(re, subject))
CallFindAllString(n) == Returns("FindAllString", n, <<>>, FindAllString(re, subject, n))
CallFindAll(n) == Returns("FindAll", n, <<>>, FindAll(re, subject, n))
CallFindAllStringSubmatch(n) ==
  Returns("FindAllStringSubmatch", n, <<>>, FindAllStringSubmatch(re, subject, n))
CallFindAllSubmatch(n) ==
  Returns("FindAllSubmatch", n, <<>>, FindAllSubmatch(re, subject, n))
CallFindAllStringIndex(n) ==
  Returns("FindAllStringIndex", n, <<>>, FindAllStringIndex(re, subject, n))
CallFindAllIndex(n) == Returns("FindAllIndex", n, <<>>, FindAllIndex(re, subject, n))
CallFindAllStringSubmatchIndex(n) ==
  Returns("FindAllStringSubmatchIndex", n, <<>>, FindAllStringSubmatchIndex(re, subject, n))
CallFindAllSubmatchIndex(n) ==
  Returns("FindAllSubmatchIndex", n, <<>>, FindAllSubmatchIndex(re, subject, n))
CallReplaceAllString(repl) ==
  Returns("ReplaceAllString", 0, repl, ReplaceAllString(re, subject, repl))
CallReplaceAll(repl) == Returns("ReplaceAll", 0, repl, ReplaceAll(re, subject, repl))

\* Close: both native objects freed and their pointers cleared.
CloseKeepsCode(r) == [r EXCEPT !.matchData = 0]

Close(r) == [r EXCEPT !.matchData = 0, !.code = 0]

\* The calls Close makes on r: pcre2_match_data_free if re.matchData != 0,
\* pcre2_code_free if re.code != 0, counted into h with the call itself.
closeFrees(r, h) ==
  [h EXCEPT !.code = @ + (IF r.code # 0 THEN 1 ELSE 0),
            !.matchData = @ + (IF r.matchData # 0 THEN 1 ELSE 0),
            !.closes = @ + 1]

CallClose ==
  /\ pc = "idle"
  /\ heap.closes < MaxCloses
  /\ re' = Close(re)
  /\ heap' = closeFrees(re, heap)
  /\ last' = [op |-> "Close", n |-> 0, repl |-> <<>>, out |-> <<>>]
  /\ pc' = "returned"
  /\ UNCHANGED <<subject, split, clsPattern, clsVerdict, rx, held, threads>>

\* FindStringIndex / FindIndex: what match returns.
FindStringIndex(r, s) == match(r, s)

\* One iteration of Split's loop from (pos, parts) once FindStringIndex has
\* answered m: the locals afterwards and whether the loop was left.
splitBodyNoTail(m, s, n, pos, parts) ==
  IF m.idx = <<>> \/ m.idx[1] < 0
  THEN [done |-> TRUE, pos |-> pos,
        parts |-> IF pos < Len(s) THEN Append(parts, From(s, pos)) ELSE parts, re |-> m.re]
  ELSE LET parts1 == Append(parts, Slice(s, pos, pos + m.idx[1]))
           pos1 == pos + m.idx[2]
       IN IF n > 0 /\ Len(parts1) = n - 1
          THEN [done |-> TRUE, pos |-> pos1,
                parts |-> Append(parts1, From(s, pos1)), re |-> m.re]
          ELSE [done |-> FALSE, pos |-> pos1, parts |-> parts1, re |-> m.re]

splitBody(m, s, n, pos, parts) ==
  IF m.idx = <<>> \/ m.idx[1] < 0
  THEN [done |-> TRUE, pos |-> pos, parts |-> Append(parts, From(s, pos)), re |-> m.re]
  ELSE LET parts1 == Append(parts, Slice(s, pos, pos + m.idx[1]))
           pos1 == pos + m.idx[2]
       IN IF n > 0 /\ Len(parts1) = n - 1
          THEN [done |-> TRUE, pos |-> pos1,
                parts |-> Append(parts1, From(s, pos1)), re |-> m.re]
          ELSE [done |-> FALSE, pos |-> pos1, parts |-> parts1, re |-> m.re]

splitIteration(r, s, n, pos, parts) ==
  splitBody(FindStringIndex(r, From(s, pos)), s, n, pos, parts)

\* Split, one loop iteration a step.  The loop is followed while it has
\* emitted at most MaxParts parts (a subject of MaxLen bytes has at most
\* MaxLen non-empty separators).
MaxParts == MaxLen + 1

SplitReturn(n, pos, parts, r) ==
  /\ re' = r
  /\ last' = [op |-> "Split", n |-> n, repl |-> <<>>, out |-> parts]
  /\ split' = [n |-> n, pos |-> pos, parts |-> parts]
  /\ pc' = "returned"

CallSplit(n) ==
  /\ pc = "idle"
  /\ IF n = 0 THEN SplitReturn(n, 0, <<>>, re)
     ELSE /\ split' = [n |-> n, pos |-> 0, parts |-> <<>>]
          /\ pc' = "Split"
          /\ UNCHANGED <<re, last>>
  /\ UNCHANGED <<subject, clsPattern, clsVerdict, rx, heap, held, threads>>

\* The loop after the iteration it: left with the parts, or around again.
SplitAfter(it) ==
  IF it.done THEN SplitReturn(split.n, it.pos, it.parts, it.re)
  ELSE /\ Len(it.parts) <= MaxParts
       /\ split' = [split EXCEPT !.pos = it.pos, !.parts = it.parts]
       /\ re' = it.re
       /\ UNCHANGED <<pc, last>>

SplitIteration ==
  /\ pc = "Split"
  /\ SplitAfter(splitIteration(re, subject, split.n, split.pos, split.parts))
  /\ UNCHANGED <<subject, clsPattern, clsVerdict, rx, heap, held, threads>>

\* The caller takes the result; the PCREgexp is ready for the next call.
Return ==
  /\ pc = "returned"
  /\ pc' = "idle"
  /\ last' = NoCall
  /\ split' = NoSplit
  /\ UNCHANGED <<re, subject, clsPattern, clsVerdict, rx, heap, held, threads>>

Init ==
  /\ re \in {Compile(p) : p \in Patterns}
  /\ subject \in Subjects
  /\ pc = "idle"
  /\ last = NoCall
  /\ split = NoSplit
  /\ clsPattern = <<>>
  /\ clsVerdict = "none"
  /\ rx = NoRegexp
  /\ heap = NoFrees
  /\ held = NoHeld
  /\ threads = NoThreads

Next ==
  \/ CallMatchString
  \/ CallMatch
  \/ \E n \in Limits : CallFindAllString(n)
  \/ \E n \in Limits : CallFindAll(n)
  \/ \E n \in Limits : CallFindAllStringSubmatch(n)
  \/ \E n \in Limits : CallFindAllSubmatch(n)
  \/ \E n \in Limits : CallFindAllStringIndex(n)
  \/ \E n \in Limits : CallFindAllIndex(n)
  \/ \E n \in Limits : CallFindAllStringSubmatchIndex(n)
  \/ \E n \in Limits : CallFindAllSubmatchIndex(n)
  \/ \E repl \in Templates : CallReplaceAllString(repl)
  \/ \E repl \in Templates : CallReplaceAll(repl)
  \/ \E n \in Limits : CallSplit(n)
  \/ SplitIteration
  \/ CallClose
  \/ Return

Spec == Init /\ [][Next]_vars

\* The classifier on its own: a pattern text is drawn and classified.
Classify ==
  /\ clsVerdict = "none"
  /\ clsVerdict' = IF needsPCRE(clsPattern) THEN "Backtracking" ELSE "Native"
  /\ UNCHANGED <<re, subject, pc, last, split, clsPattern, rx, heap, held, threads>>

InitClassify ==
  /\ clsPattern \in PatternTexts
  /\ clsVerdict = "none"
  /\ re = Compile("")
  /\ subject = <<>>
  /\ pc = "idle"
  /\ last = NoCall
  /\ split = NoSplit
  /\ rx = NoRegexp
  /\ heap = NoFrees
  /\ held = NoHeld
  /\ threads = NoThreads

SpecClassify == InitClassify /\ [][Classify]_vars

\* ------------------------------------------- queries the engine may fail
\* What pcre2_match may answer for subj: the match the engine finds, or a
\* negative code (no match, the match limit exhausted).
PCRE2_ERROR_MATCHLIMIT == -47
EngineErrors == {PCRE2_ERROR_NOMATCH, PCRE2_ERROR_MATCHLIMIT}
Answers(r, subj) ==
  {pcre2_match(r.pattern, subj)} \cup {[ret |-> e, ovector |-> <<>>] : e \in EngineErrors}

\* What a loop has gathered before the iteration looked at: one element; for
\* a strings.Builder, "x".
Gathered == <<<<120>>>>
Built == <<120>>

\* A method, or one iteration of its loop from gathered, with the library's
\* answers md and m: x is the result and the receiver afterwards.
Answered(op, n, gathered, pos, md, m, x) ==
  /\ pc = "idle"
  /\ re' = x.re
  /\ last' = [op |-> op, n |-> n, repl |-> gathered, out |-> x.ret,
              pos |-> pos, md |-> md, m |-> m, was |-> re]
  /\ pc' = "returned"
  /\ UNCHANGED <<subject, split, clsPattern, clsVerdict, rx, heap, held, threads>>

AnsweredMatchString(md, m) ==
  Answered("MatchString", 0, <<>>, 0, md, m, matched(matchGiven(re, subject, md, m)))

AnsweredFindString(md, m) ==
  Answered("FindString", 0, <<>>, 0, md, m,
           matchedText(matchGiven(re, subject, md, m), subject))

AnsweredFindStringIndex(md, m) ==
  Answered("FindStringIndex", 0, <<>>, 0, md, m, offsets(matchGiven(re, subject, md, m)))

AnsweredFindStringSubmatch(md, m) ==
  Answered("FindStringSubmatch", 0, <<>>, 0, md, m,
           submatchTexts(matchGiven(re, subject, md, m), subject))

AnsweredFindAllString(n, gathered, md, m) ==
  Answered("FindAllString", n, gathered, 0, md, m,
           FindAllStringBody(matchGiven(re, subject, md, m), subject, n, gathered))

AnsweredFindAllStringSubmatch(n, gathered, md, m) ==
  Answered("FindAllStringSubmatch", n, gathered, 0, md, m,
           FindAllStringSubmatchBody(
             submatchTexts(matchGiven(re, subject, md, m), subject), subject, n, gathered))

AnsweredFindAllStringIndex(n, gathered, md, m) ==
  Answered("FindAllStringIndex", n, gathered, 0, md, m,
           FindAllStringIndexBody(matchGiven(re, subject, md, m), subject, 0, n, gathered))

AnsweredFindAllStringSubmatchIndex(n, gathered, md, m) ==
  Answered("FindAllStringSubmatchIndex", n, gathered, 0, md, m,
           FindAllStringSubmatchIndexBody(
             matchGiven(re, subject, md, m), subject, 0, n, gathered))

AnsweredReplaceAllString(repl, b, md, m) ==
  Answered("ReplaceAllString", 0, b, 0, md, m,
           ReplaceAllStringBody(matchGiven(re, subject, md, m), subject, repl, b))

AnsweredReplaceAllFunc(f, b, md, m) ==
  Answered("ReplaceAllFunc", 0, b, 0, md, m,
           ReplaceAllFuncBody(matchGiven(re, subject, md, m), subject, f, b, <<>>))

splitParts(it) == [ret |-> it.parts, re |-> it.re]

AnsweredSplit(n, gathered, pos, md, m) ==
  Answered("Split", n, gathered, pos, md, m,
           splitParts(splitBody(matchGiven(re, From(subject, pos), md, m),
                                subject, n, pos, gathered)))

NextFault ==
  \/ \E md \in {0, 1}, m \in Answers(re, subject) :
       \/ AnsweredMatchString(md, m)
       \/ AnsweredFindString(md, m)
       \/ AnsweredFindStringIndex(md, m)
       \/ AnsweredFindStringSubmatch(md, m)
       \/ AnsweredFindAllString(-1, Gathered, md, m)
       \/ AnsweredFindAllStringSubmatch(-1, Gathered, md, m)
       \/ AnsweredFindAllStringIndex(-1, <<>>, md, m)
       \/ AnsweredFindAllStringSubmatchIndex(-1, <<>>, md, m)
       \/ AnsweredReplaceAllString(<<36, 49>>, Built, md, m)
       \/ \E f \in Repls : AnsweredReplaceAllFunc(f, Built, md, m)
  \/ \E md \in {0, 1}, pos \in 0..Len(subject) :
       \E m \in Answers(re, From(subject, pos)) : AnsweredSplit(-1, Gathered, pos, md, m)

\* A subject of the bytes 'a' and 'b', and a handle Compile returned: as it
\* is, after a query, or closed.
Handles(s) ==
  {Compile(p) : p \in Patterns} \cup {match(Compile(p), s).re : p \in Patterns}

InitFault ==
  /\ subject \in SeqsUpTo({97, 98}, MaxLen)
  /\ re \in Handles(subject) \cup {Close(r) : r \in Handles(subject)}
  /\ pc = "idle"
  /\ last = NoCall
  /\ split = NoSplit
  /\ clsPattern = <<>>
  /\ clsVerdict = "none"
  /\ rx = NoRegexp
  /\ heap = NoFrees
  /\ held = NoHeld
  /\ threads = NoThreads

SpecFault == InitFault /\ [][NextFault]_vars

\* ------------------------------------------------- Expand / ExpandString
\* "$$", "$0", "$1", "$2", "$2$1", "$10", "$", "$x", "a$1b", "x$", "".
ExpandTemplates ==
  {<<36, 36>>, <<36, 48>>, <<36, 49>>, <<36, 50>>, <<36, 50, 36, 49>>, <<36, 49, 48>>,
   <<36>>, <<36, 120>>, <<97, 36, 49, 98>>, <<120, 36>>, <<>>}

\* The match slices handed to Expand: what FindSubmatchIndex returns for the
\* subject, and every slice match[:k] of it.
MatchSlices(r, src) ==
  {SubSeq(FindSubmatchIndex(r, src).ret, 1, k) : k \in 0..Len(FindSubmatchIndex(r, src).ret)}

Expanded(op, dst, template, mtch, x) ==
  /\ pc = "idle"
  /\ last' = [op |-> op, n |-> 0, repl |-> template, out |-> x.dst,
              panic |-> x.panic, dst |-> dst, mtch |-> mtch]
  /\ pc' = "returned"
  /\ UNCHANGED <<re, subject, split, clsPattern, clsVerdict, rx, heap, held, threads>>

CallExpand(dst, template, mtch) ==
  Expanded("Expand", dst, template, mtch, Expand(dst, template, subject, mtch))

CallExpandString(dst, template, mtch) ==
  Expanded("ExpandString", dst, template, mtch, ExpandString(dst, template, subject, mtch))

NextExpand ==
  \E dst \in {<<>>, <<120>>}, template \in ExpandTemplates, mtch \in MatchSlices(re, subject) :
    \/ CallExpand(dst, template, mtch)
    \/ CallExpandString(dst, template, mtch)

InitExpand ==
  /\ re \in {Compile(p) : p \in Patterns}
  /\ subject \in SeqsUpTo({97, 98}, MaxLen)
  /\ pc = "idle"
  /\ last = NoCall
  /\ split = NoSplit
  /\ clsPattern = <<>>
  /\ clsVerdict = "none"
  /\ rx = NoRegexp
  /\ heap = NoFrees
  /\ held = NoHeld
  /\ threads = NoThreads

SpecExpand == InitExpand /\ [][NextExpand]_vars

\* ----------------------------------------- Find*, ReplaceAll*Func, a kept slice
\* The slice a Find*Index call returns is re.buf: the first idx elements of
\* the newest array of re.mem.  The caller keeps the first such slice it is
\* handed (held), with the contents it had then.
holds(h, m) ==
  IF h = NoHeld /\ m.idx # <<>>
  THEN [arr |-> Len(m.re.mem), len |-> Len(m.idx), was |-> m.idx]
  ELSE h

\* The contents of the kept slice now.
heldNow(r, h) == SubSeq(r.mem[h.arr], 1, h.len)

IndexReturns(op, m) ==
  /\ pc = "idle"
  /\ re' = m.re
  /\ held' = holds(held, m)
  /\ last' = [op |-> op, n |-> 0, repl |-> <<>>, out |-> m.idx]
  /\ pc' = "returned"
  /\ UNCHANGED <<subject, split, clsPattern, clsVerdict, rx, heap, threads>>

CallFindStringIndex == IndexReturns("FindStringIndex", FindStringIndex(re, subject))
CallFindIndex == IndexReturns("FindIndex", match(re, subject))
CallFindSubmatchIndex == IndexReturns("FindSubmatchIndex", match(re, subject))
CallFindStringSubmatchIndex == IndexReturns("FindStringSubmatchIndex", match(re, subject))

CallFind == Returns("Find", 0, <<>>, Find(re, subject))
CallFindString == Returns("FindString", 0, <<>>, FindString(re, subject))
CallFindSubmatch == Returns("FindSubmatch", 0, <<>>, FindSubmatch(re, subject))
CallFindStringSubmatch == Returns("FindStringSubmatch", 0, <<>>, FindStringSubmatch(re, subject))

FuncReturns(op, f, x) ==
  /\ pc = "idle"
  /\ re' = x.re
  /\ last' = [op |-> op, n |-> 0, repl |-> f, out |-> x.ret, calls |-> x.calls]
  /\ pc' = "returned"
  /\ UNCHANGED <<subject, split, clsPattern, clsVerdict, rx, heap, held, threads>>

CallReplaceAllFunc(f) == FuncReturns("ReplaceAllFunc", f, ReplaceAllFunc(re, subject, f))
CallReplaceAllStringFunc(f) ==
  FuncReturns("ReplaceAllStringFunc", f, ReplaceAllStringFunc(re, subject, f))

NextFind ==
  \/ CallFindStringIndex
  \/ CallFindIndex
  \/ CallFindSubmatchIndex
  \/ CallFindStringSubmatchIndex
  \/ CallFind
  \/ CallFindString
  \/ CallFindSubmatch
  \/ CallFindStringSubmatch
  \/ CallMatchString
  \/ CallFindAllString(-1)
  \/ \E f \in Repls : CallReplaceAllFunc(f)
  \/ \E f \in Repls : CallReplaceAllStringFunc(f)
  \/ CallClose
  \/ Return

SpecFind == Init /\ [][NextFind]_vars

\* ------------------------------------------------------ the facade Regexp
\* The texts of the engine's patterns, and "(" and "(?<=", which no engine
\* compiles.
PatternText(p) ==
  CASE p = "a" -> <<97>>
    [] p = "a*" -> <<97, 42>>
    [] p = "(a)(b)" -> <<40, 97, 41, 40, 98, 41>>
    [] p = "(a)|b" -> <<40, 97, 41, 124, 98>>
    [] p = "(a)|(b)" -> <<40, 97, 41, 124, 40, 98, 41>>
    [] p = "^a" -> <<94, 97>>
    [] p = "(?<=a)b" -> <<40, 63, 60, 61, 97, 41, 98>>
    [] p = "" -> <<>>
InvalidTexts == {<<40>>, <<40, 63, 60, 61>>}
FacadeTexts == {PatternText(p) : p \in Patterns} \cup InvalidTexts

\* pcre2_compile and regexp.Compile return no error for text.
Accepted(text) == \E p \in Patterns : PatternText(p) = text
PatternOf(text) == CHOOSE p \in Patterns : PatternText(p) = text

\* The zero value of PCREgexp.
ZeroPCREgexp == [pattern |-> "", buf |-> <<>>, code |-> 0, matchData |-> 0, mem |-> <<>>]

\* Compile of the facade: whether it returns an error, the Regexp it returns
\* and the handle its pcregexp field points to.
RegexpCompileBoth(text) ==
  IF ~Accepted(text) THEN [err |-> TRUE, r |-> NoRegexp, re |-> ZeroPCREgexp]
  ELSE [err |-> FALSE, r |-> [regexp |-> 1, pcregexp |-> 1, pattern |-> text],
        re |-> Compile(PatternOf(text))]

RegexpCompile(text) ==
  IF needsPCRE(text)
  THEN IF ~Accepted(text) THEN [err |-> TRUE, r |-> NoRegexp, re |-> ZeroPCREgexp]
       ELSE [err |-> FALSE, r |-> [regexp |-> 0, pcregexp |-> 1, pattern |-> text],
             re |-> Compile(PatternOf(text))]
  ELSE IF ~Accepted(text) THEN [err |-> TRUE, r |-> NoRegexp, re |-> ZeroPCREgexp]
       ELSE [err |-> FALSE, r |-> [regexp |-> 1, pcregexp |-> 0, pattern |-> text],
             re |-> ZeroPCREgexp]

IsPCRE(r) == r.pcregexp # 0
String(r) == r.pattern
MarshalText(r) == String(r)

\* UnmarshalText once Compile has answered c: *r = *re when there is no
\* error (the handle of the new Regexp has native objects of its own), the
\* receiver as it was otherwise.
unmarshalledAlways(c, r, hd, h) == [err |-> c.err, r |-> c.r, re |-> c.re, heap |-> NoFrees]

unmarshalled(c, r, hd, h) ==
  IF c.err THEN [err |-> TRUE, r |-> r, re |-> hd, heap |-> h]
  ELSE [err |-> FALSE, r |-> c.r, re |-> c.re, heap |-> NoFrees]

UnmarshalText(r, hd, h, text) == unmarshalled(RegexpCompile(text), r, hd, h)

\* A call on the facade that runs to its return in one step.
RegexpReturns(op, text, out, r1, re1, h1) ==
  /\ pc = "idle"
  /\ rx' = r1
  /\ re' = re1
  /\ heap' = h1
  /\ last' = [op |-> op, n |-> 0, repl |-> text, out |-> out]
  /\ pc' = "returned"
  /\ UNCHANGED <<subject, split, clsPattern, clsVerdict, held, threads>>

\* MatchString of the facade: the handle's when pcregexp is not nil, the
\* standard library's otherwise (on the zero value the call dereferences a
\* nil pointer and the program ends).
RegexpMatchStringVia(m) == RegexpReturns("Regexp.MatchString", <<>>, m.ret, rx, m.re, heap)

RegexpMatchString ==
  /\ rx # NoRegexp
  /\ IF rx.pcregexp # 0
     THEN RegexpMatchStringVia(MatchString(re, subject))
     ELSE RegexpReturns("Regexp.MatchString", <<>>,
                        pcre2_match(PatternOf(rx.pattern), subject).ret >= 0, rx, re, heap)

RegexpClose ==
  IF rx.pcregexp # 0
  THEN /\ heap.closes < MaxCloses
       /\ RegexpReturns("Regexp.Close", <<>>, <<>>, rx, Close(re), closeFrees(re, heap))
  ELSE RegexpReturns("Regexp.Close", <<>>, <<>>, rx, re, heap)

RegexpIsPCRE == RegexpReturns("Regexp.IsPCRE", <<>>, IsPCRE(rx), rx, re, heap)
RegexpString == RegexpReturns("Regexp.String", <<>>, String(rx), rx, re, heap)
RegexpMarshalText == RegexpReturns("Regexp.MarshalText", <<>>, MarshalText(rx), rx, re, heap)

RegexpUnmarshalTextTo(text, u) ==
  RegexpReturns("Regexp.UnmarshalText", text, u.err, u.r, u.re, u.heap)

RegexpUnmarshalText(text) == RegexpUnmarshalTextTo(text, UnmarshalText(rx, re, heap, text))

\* A Regexp that Compile returned, or the zero value, with the handle behind
\* it, and a subject of the bytes 'a' and 'b'.
InitFacade ==
  /\ \E c \in {RegexpCompile(text) : text \in FacadeTexts} : rx = c.r /\ re = c.re
  /\ subject \in SeqsUpTo({97, 98}, MaxLen)
  /\ pc = "idle"
  /\ last = NoCall
  /\ split = NoSplit
  /\ clsPattern = <<>>
  /\ clsVerdict = "none"
  /\ heap = NoFrees
  /\ held = NoHeld
  /\ threads = NoThreads

NextFacade ==
  \/ RegexpMatchString
  \/ RegexpClose
  \/ CallClose
  \/ RegexpIsPCRE
  \/ RegexpString
  \/ RegexpMarshalText
  \/ \E text \in FacadeTexts : RegexpUnmarshalText(text)
  \/ Return

SpecFacade == InitFacade /\ [][NextFacade]_vars

\* ---------------------------------- the scanning loops, an iteration a step
\* The loops of the FindAll* and ReplaceAll* families with one iteration a
\* step: split.pos is how much of the subject the loop has cut off the front
\* of remaining, split.n the countdown (the ReplaceAll* loops have none).
CountedScans ==
  {"FindAllString", "FindAllStringIndex", "FindAllStringSubmatch",
   "FindAllStringSubmatchIndex"}
ScanOps == CountedScans \cup {"ReplaceAllString", "ReplaceAllFunc"}

\* How many bytes of remaining one iteration cuts off, or -1 when it leaves
\* the loop.  FindAllString, FindAllStringIndex, FindAllStringSubmatchIndex:
findAllCut(m, remaining) ==
  IF Len(m.idx) < 2 THEN -1 ELSE consumed(remaining, m.idx)

\* FindAllStringSubmatch, from what FindStringSubmatch answered:
findAllSubmatchCut(f, remaining) ==
  IF f.ret = <<>> THEN -1
  ELSE IF Len(f.ret[1]) = 0
       THEN IF Len(remaining) = 0 THEN -1 ELSE DecodeRune(remaining).size
       ELSE Len(f.ret[1])

\* ReplaceAllString (remaining = "" cuts all of it off):
replaceAllStringCut(m, remaining) ==
  IF Len(m.idx) < 2 \/ m.idx[1] < 0 THEN -1
  ELSE IF m.idx[1] = m.idx[2]
       THEN IF m.idx[2] < Len(remaining)
            THEN LET d == DecodeRune(From(remaining, m.idx[2]))
                 IN IF d.r = RuneError \/ d.size = 0 THEN -1 ELSE m.idx[2] + d.size
            ELSE Len(remaining)
       ELSE m.idx[2]

\* ReplaceAllFunc, ReplaceAllStringFunc:
replaceAllFuncCut(m, remaining) ==
  IF Len(m.idx) < 2 THEN -1
  ELSE IF m.idx[1] = m.idx[2]
       THEN IF m.idx[2] >= Len(remaining) THEN -1
            ELSE LET d == DecodeRune(From(remaining, m.idx[2]))
                 IN IF d.r = RuneError THEN -1 ELSE m.idx[2] + d.size
       ELSE m.idx[2]

scanCut(op, m, remaining) ==
  CASE op \in {"FindAllString", "FindAllStringIndex", "FindAllStringSubmatchIndex"} ->
         findAllCut(m, remaining)
    [] op = "FindAllStringSubmatch" ->
         findAllSubmatchCut(submatchTexts(m, remaining), remaining)
    [] op = "ReplaceAllString" -> replaceAllStringCut(m, remaining)
    [] op = "ReplaceAllFunc" -> replaceAllFuncCut(m, remaining)

ScanReturn(op, r) ==
  /\ re' = r
  /\ last' = [op |-> op, n |-> split.n, repl |-> <<>>, out |-> <<>>]
  /\ pc' = "returned"

\* The call up to its loop: FindAll* return nil when n == 0, ReplaceAllString
\* returns "" when src == "".
CallScan(op, n) ==
  /\ pc = "idle"
  /\ split' = [n |-> n, pos |-> 0, parts |-> <<>>]
  /\ IF (op \in CountedScans /\ n = 0) \/ (op = "ReplaceAllString" /\ subject = <<>>)
     THEN /\ last' = [op |-> op, n |-> n, repl |-> <<>>, out |-> <<>>]
          /\ pc' = "returned"
     ELSE /\ pc' = op
          /\ UNCHANGED last
  /\ UNCHANGED <<re, subject, clsPattern, clsVerdict, rx, heap, held, threads>>

\* One iteration once match has answered m: out of the loop, or around again
\* with remaining cut and n counted down.
ScanAfter(m, c) ==
  IF c < 0 THEN ScanReturn(pc, m.re) /\ UNCHANGED split
  ELSE /\ split' = [split EXCEPT !.pos = @ + c,
                                 !.n = IF pc \in CountedScans THEN @ - 1 ELSE @]
       /\ re' = m.re
       /\ UNCHANGED <<pc, last>>

ScanIteration ==
  /\ pc \in ScanOps
  /\ IF pc \in CountedScans /\ split.n = 0
     THEN ScanReturn(pc, re) /\ UNCHANGED split
     ELSE ScanAfter(match(re, From(subject, split.pos)),
                    scanCut(pc, match(re, From(subject, split.pos)),
                            From(subject, split.pos)))
  /\ UNCHANGED <<subject, clsPattern, clsVerdict, rx, heap, held, threads>>

NextScan ==
  \/ \E op \in CountedScans, n \in Limits : CallScan(op, n)
  \/ \E op \in ScanOps \ CountedScans : CallScan(op, -1)
  \/ ScanIteration
  \/ Return

SpecScan == Init /\ [][NextScan]_vars

\* ------------------------------------------- PCREgexp: UnmarshalText
\* The native objects r points to: its pcre2_code and its match data.
liveObjects(r) == (IF r.code # 0 THEN 1 ELSE 0) + (IF r.matchData # 0 THEN 1 ELSE 0)

\* UnmarshalText of the handle r, h the native side:
\*   r, err := Compile(string(text)); if err != nil { return err }; *re = *r
\* The assignment overwrites code and matchData; the objects they pointed
\* to are handed to no free function and nothing points to them any more
\* (h.leaked).  The new handle's objects have not been freed.
PCREgexpUnmarshalTextAlways(r, h, text) ==
  [err |-> ~Accepted(text), re |-> ZeroPCREgexp,
   heap |-> [NoFrees EXCEPT !.leaked = h.leaked + liveObjects(r)]]

PCREgexpUnmarshalText(r, h, text) ==
  IF ~Accepted(text) THEN [err |-> TRUE, re |-> r, heap |-> h]
  ELSE [err |-> FALSE, re |-> Compile(PatternOf(text)),
        heap |-> [NoFrees EXCEPT !.leaked = h.leaked + liveObjects(r)]]

UnmarshalTextReturns(text, u) ==
  /\ pc = "idle"
  /\ u.heap.leaked <= MaxLeaks
  /\ re' = u.re
  /\ heap' = u.heap
  /\ last' = [op |-> "UnmarshalText", n |-> 0, repl |-> text, out |-> u.err]
  /\ pc' = "returned"
  /\ UNCHANGED <<subject, split, clsPattern, clsVerdict, rx, held, threads>>

CallUnmarshalText(text) ==
  UnmarshalTextReturns(text, PCREgexpUnmarshalText(re, heap, text))

\* A program that holds a PCREgexp of its own (rx stays the zero value) or a
\* facade Regexp with the handle behind it, and unmarshals, queries and
\* closes it.
NextUnmarshal ==
  \/ rx = NoRegexp /\ \E text \in FacadeTexts : CallUnmarshalText(text)
  \/ rx = NoRegexp /\ CallMatchString
  \/ rx = NoRegexp /\ CallClose
  \/ rx # NoRegexp /\ \E text \in FacadeTexts : RegexpUnmarshalText(text)
  \/ RegexpMatchString
  \/ rx # NoRegexp /\ RegexpClose
  \/ Return

InitUnmarshal ==
  /\ \/ rx = NoRegexp /\ re \in {Compile(p) : p \in Patterns} \cup {ZeroPCREgexp}
     \/ \E text \in FacadeTexts :
          /\ ~RegexpCompile(text).err
          /\ rx = RegexpCompile(text).r
          /\ re = RegexpCompile(text).re
  /\ subject \in SeqsUpTo({97, 98}, MaxN)
  /\ pc = "idle"
  /\ last = NoCall
  /\ split = NoSplit
  /\ clsPattern = <<>>
  /\ clsVerdict = "none"
  /\ heap = NoFrees
  /\ held = NoHeld
  /\ threads = NoThreads

SpecUnmarshal == InitUnmarshal /\ [][NextUnmarshal]_vars

\* ------------------------------------- two goroutines inside match at once
\* Two goroutines query the one PCREgexp.  match is followed step by step:
\* the entry with saveMatchData, the pcre2_match call, which leaves its
\* offsets in the ovector of the one match data block, and the copy of the
\* ovector into re.buf, which match returns.  When the callers serialize
\* (threads.serial) a goroutine enters only while no other is inside.
Goroutines == {1, 2}
RaceSubjects == {<<>>, <<97>>, <<98>>, <<97, 98>>, <<98, 97>>}

inside(t, i) == t.g[i].pc \in {"pcre2_match", "copy"}
mayEnter(t, i) == t.serial => \A j \in Goroutines \ {i} : ~inside(t, j)

\* re.buf[i] = int(*ptr) for i < reqLen: what the copy loop reads.
ovectorReadNothing(ov, reqLen) == [i \in 1..reqLen |-> 0]

ovectorRead(ov, reqLen) == [i \in 1..reqLen |-> int(ov[i])]

MatchReturns(i, out) ==
  threads' = [threads EXCEPT !.g[i].pc = "returned", !.g[i].out = out]

MatchEnter(i, s) ==
  /\ threads.g[i].pc = "idle"
  /\ mayEnter(threads, i)
  /\ IF re.code = 0 \/ Len(s) = 0
     THEN /\ threads' = [threads EXCEPT !.g[i] = [pc |-> "returned", subject |-> s,
                                                  ret |-> 0, out |-> <<>>]]
          /\ UNCHANGED re
     ELSE /\ threads' = [threads EXCEPT !.g[i].pc = "pcre2_match", !.g[i].subject = s]
          /\ re' = saveMatchData(re)
  /\ UNCHANGED <<subject, pc, last, split, clsPattern, clsVerdict, rx, heap, held>>

MatchEngineAnswers(i, m) ==
  IF m.ret < 0 THEN MatchReturns(i, <<>>)
  ELSE threads' = [threads EXCEPT !.ovector = m.ovector,
                                  !.g[i].ret = m.ret, !.g[i].pc = "copy"]

MatchEngine(i) ==
  /\ threads.g[i].pc = "pcre2_match"
  /\ MatchEngineAnswers(i, pcre2_match(re.pattern, threads.g[i].subject))
  /\ UNCHANGED <<re, subject, pc, last, split, clsPattern, clsVerdict, rx, heap, held>>

MatchCopied(i, buf) ==
  /\ re' = fillBuf(re, buf)
  /\ MatchReturns(i, buf)

MatchCopy(i) ==
  /\ threads.g[i].pc = "copy"
  /\ MatchCopied(i, ovectorRead(threads.ovector, threads.g[i].ret * 2))
  /\ UNCHANGED <<subject, pc, last, split, clsPattern, clsVerdict, rx, heap, held>>

\* The caller has taken the result.
MatchLeave(i) ==
  /\ threads.g[i].pc = "returned"
  /\ threads' = [threads EXCEPT !.g[i] = NoThread]
  /\ UNCHANGED <<re, subject, pc, last, split, clsPattern, clsVerdict, rx, heap, held>>

NextRace ==
  \/ \E i \in Goroutines, s \in RaceSubjects : MatchEnter(i, s)
  \/ \E i \in Goroutines : MatchEngine(i)
  \/ \E i \in Goroutines : MatchCopy(i)
  \/ \E i \in Goroutines : MatchLeave(i)

InitRace ==
  /\ re \in {Compile(p) : p \in Patterns}
  /\ subject = <<>>
  /\ pc = "idle"
  /\ last = NoCall
  /\ split = NoSplit
  /\ clsPattern = <<>>
  /\ clsVerdict = "none"
  /\ rx = NoRegexp
  /\ heap = NoFrees
  /\ held = NoHeld
  /\ threads \in {[NoThreads EXCEPT !.serial = b] : b \in BOOLEAN}

SpecRace == InitRace /\ [][NextRace]_vars

\* ================================================================ claims
Returned(ops) == pc = "returned" /\ last.op \in ops

FindAllOps ==
  {"FindAllString", "FindAll", "FindAllStringSubmatch", "FindAllSubmatch",
   "FindAllStringIndex", "FindAllIndex", "FindAllStringSubmatchIndex", "FindAllSubmatchIndex"}
IndexOps == {"FindAllStringIndex", "FindAllIndex", "FindAllStringSubmatchIndex", "FindAllSubmatchIndex"}

\* ---- C1
\* The text a template stands for against one match: $$ is $, $g the text of
\* group g (nothing when the group is out of range or unset), any other byte
\* itself.
GroupText(src, m, g) ==
  IF 2 * g + 1 < Len(m) /\ m[2 * g + 1] >= 0 /\ m[2 * g + 2] >= 0
  THEN Slice(src, m[2 * g + 1], m[2 * g + 2]) ELSE <<>>

RECURSIVE TemplateText(_, _, _, _)
TemplateText(template, src, m, i) ==
  IF i >= Len(template) THEN <<>>
  ELSE IF template[i + 1] = 36 /\ i + 1 < Len(template) /\ template[i + 2] = 36
       THEN <<36>> \o TemplateText(template, src, m, i + 2)
  ELSE IF template[i + 1] = 36 /\ i + 1 < Len(template) /\ template[i + 2] \in 48..57
       THEN LET e == digitsEnd(template, i + 1)
            IN GroupText(src, m, groupOf(template, i + 1, e, 0))
               \o TemplateText(template, src, m, e)
  ELSE <<template[i + 1]>> \o TemplateText(template, src, m, i + 1)

\* src with each of the matches spans[k..] replaced by the template's text,
\* from the end prevEnd of the match before.
RECURSIVE ReplacedByTemplate(_, _, _, _, _)
ReplacedByTemplate(src, template, spans, k, prevEnd) ==
  IF k > Len(spans) THEN From(src, prevEnd)
  ELSE Slice(src, prevEnd, spans[k][1]) \o TemplateText(template, src, spans[k], 0)
       \o ReplacedByTemplate(src, template, spans, k + 1, spans[k][2])

\* C1: ReplaceAllString and ReplaceAll return the subject with every match
\* replaced by repl evaluated as a template against that match's slots
\* (stated for the subjects all of whose matches are non-empty).
C1_ReplaceExpandsTemplate ==
  Returned({"ReplaceAllString", "ReplaceAll"}) =>
    LET spans == FindAllStringSubmatchIndex(re, subject, -1).ret
    IN (\A k \in 1..Len(spans) : spans[k][1] < spans[k][2]) =>
         last.out = ReplacedByTemplate(subject, last.repl, spans, 1, 0)

\* ---- C2
\* C2: FindAllStringSubmatch and FindAllSubmatch return as many matches as
\* FindAllString with the same limit, and each match's full text is the
\* text FindAllString returns at that place.
C2_SubmatchScanAgrees ==
  Returned({"FindAllStringSubmatch", "FindAllSubmatch"}) =>
    LET all == FindAllString(re, subject, last.n).ret
    IN /\ Len(last.out) = Len(all)
       /\ \A i \in 1..Len(all) : last.out[i][1] = all[i]

\* ---- C3
\* C3: the spans one FindAll*Index scan reports do not overlap and are in
\* order: each starts at or after the end of the one before.
C3_SpansDoNotOverlap ==
  Returned(IndexOps) =>
    \A i \in 1..(Len(last.out) - 1) : last.out[i + 1][1] >= last.out[i][2]

\* A scan that reported a non-empty match and then another match.
C3_Witness ==
  /\ Returned(IndexOps)
  /\ Len(last.out) >= 2
  /\ last.out[1][1] < last.out[1][2]
  /\ last.out[2][1] >= last.out[1][2]

\* ---- C4
\* C4: every span a FindAll*Index scan reports lies in the original subject
\* and holds the text FindAllString reports at that place; every further
\* slot is -1 (both offsets) or lies inside the match's span.
C4_OffsetsAreAbsolute ==
  Returned(IndexOps) =>
    LET all == FindAllString(re, subject, last.n).ret
    IN /\ Len(last.out) = Len(all)
       /\ \A i \in 1..Len(last.out) :
            LET m == last.out[i]
            IN /\ 0 <= m[1] /\ m[1] <= m[2] /\ m[2] <= Len(subject)
               /\ Slice(subject, m[1], m[2]) = all[i]
               /\ \A g \in 2..(Len(m) \div 2) :
                    \/ m[2 * g - 1] = -1 /\ m[2 * g] = -1
                    \/ m[1] <= m[2 * g - 1] /\ m[2 * g - 1] <= m[2 * g] /\ m[2 * g] <= m[2]

\* A match found in a re-sliced suffix with an unset slot and a set one.
C4_Witness ==
  /\ Returned({"FindAllStringSubmatchIndex", "FindAllSubmatchIndex"})
  /\ \E i \in 2..Len(last.out) :
       /\ last.out[i][1] > 0
       /\ Len(last.out[i]) = 6
       /\ last.out[i][3] = -1
       /\ last.out[i][5] = last.out[i][1]

\* ---- C5
\* What the operation returns on the same subject with n < 0.
Unlimited(op) ==
  CASE op \in {"FindAllString", "FindAll"} -> FindAllString(re, subject, -1).ret
    [] op \in {"FindAllStringSubmatch", "FindAllSubmatch"} ->
         FindAllStringSubmatch(re, subject, -1).ret
    [] op \in {"FindAllStringIndex", "FindAllIndex"} -> FindAllStringIndex(re, subject, -1).ret
    [] op \in {"FindAllStringSubmatchIndex", "FindAllSubmatchIndex"} ->
         FindAllStringSubmatchIndex(re, subject, -1).ret

\* C5: a FindAll* call returns nothing for n = 0 and otherwise the first n
\* of the matches it returns for n < 0 (all of them when there are fewer).
C5_LimitIsPrefix ==
  Returned(FindAllOps) =>
    LET all == Unlimited(last.op)
    IN /\ last.n = 0 => last.out = <<>>
       /\ last.n < 0 => last.out = all
       /\ last.n > 0 =>
            /\ Len(last.out) <= last.n
            /\ last.out = SubSeq(all, 1, IF Len(all) < last.n THEN Len(all) ELSE last.n)

\* A call cut short by its limit.
C5_Witness ==
  /\ Returned(FindAllOps)
  /\ last.n > 0
  /\ Len(last.out) = last.n
  /\ Len(Unlimited(last.op)) > last.n

\* ---- C6
\* C6: on a live handle MatchString and Match answer whether the engine
\* finds a match in the subject from offset 0.
C6_MatchIffEngineMatches ==
  (Returned({"MatchString", "Match"}) /\ re.code # 0) =>
    (last.out <=> pcre2_match(re.pattern, subject).ret >= 0)

\* ---- C7
\* C7: for n > 0 Split returns at most n substrings, and for n = 1 the
\* subject alone.
C7_SplitAtMostN ==
  (Returned({"Split"}) /\ last.n > 0) =>
    /\ Len(last.out) <= last.n
    /\ last.n = 1 => last.out = <<subject>>

\* ---- C8
\* C8: Split returns nothing for n = 0, one empty element for the empty
\* subject, the subject alone when the separator does not match in it; its
\* first element is the text before the first separator and its last
\* element the text after the last separator, empty or not.
C8_SplitEdges ==
  Returned({"Split"}) =>
    LET first == match(re, subject).idx
    IN /\ last.n = 0 => last.out = <<>>
       /\ (last.n # 0 /\ subject = <<>>) => last.out = << <<>> >>
       /\ (last.n # 0 /\ first = <<>>) => last.out = <<subject>>
       /\ (last.n # 0 /\ first # <<>>) =>
            /\ Len(last.out) >= 2
            /\ last.out[1] = Slice(subject, 0, first[1])
       /\ last.n # 0 => last.out[Len(last.out)] = From(subject, split.pos)

\* A subject that begins and ends with a separator: empty first and last
\* elements around a non-empty one.
C8_Witness ==
  /\ Returned({"Split"})
  /\ last.n < 0
  /\ Len(last.out) = 3
  /\ last.out[1] = <<>>
  /\ last.out[2] # <<>>
  /\ last.out[3] = <<>>

\* ---- C9
\* The number of backslashes that stand immediately before index i of p.
RECURSIVE BackslashesBefore(_, _)
BackslashesBefore(p, i) ==
  IF i = 0 \/ p[i] # 92 THEN 0 ELSE 1 + BackslashesBefore(p, i - 1)

\* The byte at index i of p stands after an even run of backslashes.
Unescaped(p, i) == BackslashesBefore(p, i) % 2 = 0

MarkerAt(p, i, mk) ==
  /\ i + Len(mk) <= Len(p)
  /\ \A j \in 1..Len(mk) : p[i + j] = mk[j]

UnescapedMarkerPositions(p) ==
  {i \in 0..(Len(p) - 1) : Unescaped(p, i) /\ \E mk \in lookarounds : MarkerAt(p, i, mk)}

HasUnescapedLookaround(p) == UnescapedMarkerPositions(p) # {}

\* C9: a classified pattern that holds a lookaround marker whose opening
\* parenthesis stands after an even run of backslashes is reported
\* Backtracking.
C9_LookaroundIsBacktracking ==
  (clsVerdict # "none" /\ HasUnescapedLookaround(clsPattern)) => clsVerdict = "Backtracking"

\* A classified pattern whose marker stands after a run of two or more
\* backslashes of even length.
C9_Witness ==
  /\ clsVerdict = "Backtracking"
  /\ \E i \in UnescapedMarkerPositions(clsPattern) : BackslashesBefore(clsPattern, i) >= 2

\* ---- C10
\* An unescaped '(' that is not immediately followed by "?:" or "?P".
HasCapturingParen(p) ==
  \E i \in 0..(Len(p) - 1) :
    /\ p[i + 1] = 40
    /\ Unescaped(p, i)
    /\ ~(MarkerAt(p, i + 1, <<63, 58>>) \/ MarkerAt(p, i + 1, <<63, 80>>))

\* An unescaped backslash immediately followed by a digit 1-9.
HasBackrefToken(p) ==
  \E i \in 0..(Len(p) - 2) :
    /\ p[i + 1] = 92
    /\ Unescaped(p, i)
    /\ p[i + 2] \in 49..57

\* C10: a classified pattern without an unescaped lookaround marker is
\* reported Backtracking exactly when it has a capturing parenthesis and a
\* backreference token, and Native otherwise.
C10_BackreferenceNeedsGroup ==
  (clsVerdict # "none" /\ ~HasUnescapedLookaround(clsPattern)) =>
    /\ clsVerdict = "Backtracking" <=>
         (HasCapturingParen(clsPattern) /\ HasBackrefToken(clsPattern))
    /\ clsVerdict \in {"Backtracking", "Native"}

\* A pattern without lookaround classified Backtracking for its group and
\* backreference token.
C10_Witness ==
  /\ clsVerdict = "Backtracking"
  /\ ~HasUnescapedLookaround(clsPattern)
  /\ HasCapturingParen(clsPattern)
  /\ HasBackrefToken(clsPattern)

\* ---- C11
\* A facade Regexp that Compile or UnmarshalText has filled has exactly one of
\* regexp and pcregexp, whatever was called on it since, and it has the
\* pcregexp exactly when needsPCRE holds of its pattern.
C11_ExactlyOneEngine ==
  rx # NoRegexp =>
    /\ (rx.regexp # 0) # (rx.pcregexp # 0)
    /\ (rx.pcregexp # 0) = needsPCRE(rx.pattern)

C11_Witness ==
  /\ pc = "returned" /\ last.op = "Regexp.UnmarshalText" /\ last.out = FALSE
  /\ rx.pcregexp # 0 /\ rx.regexp = 0 /\ heap = NoFrees /\ re.code # 0

\* ---- C12
\* IsPCRE() and String() of a Regexp are the same before and after every call
\* on it (as stated).
C12_RoutingNeverChanges ==
  [][rx # NoRegexp => IsPCRE(rx') = IsPCRE(rx) /\ String(rx') = String(rx)]_vars

\* C12, amended: IsPCRE() and String() are the same before and after every
\* call other than UnmarshalText; UnmarshalText of a text that compiles
\* makes String() that text and IsPCRE() the classifier's verdict on it, and
\* of a text that does not compile changes neither.
C12_RoutingChangesOnlyByUnmarshalText ==
  [][/\ last'.op # "Regexp.UnmarshalText"
        => IsPCRE(rx') = IsPCRE(rx) /\ String(rx') = String(rx)
     /\ last'.op = "Regexp.UnmarshalText"
        => IF Accepted(last'.repl)
           THEN String(rx') = last'.repl /\ IsPCRE(rx') = needsPCRE(last'.repl)
           ELSE IsPCRE(rx') = IsPCRE(rx) /\ String(rx') = String(rx)]_vars

C12_Witness ==
  /\ pc = "returned" /\ last.op = "Regexp.UnmarshalText" /\ last.out = TRUE
  /\ IsPCRE(rx) /\ re.code = 0 /\ heap.closes > 0

\* ---- C13
\* Whatever is called, and however often Close is, pcre2_code_free and
\* pcre2_match_data_free are each called at most once on a handle's objects,
\* and Close on a closed or zero-value handle frees nothing and changes
\* nothing.
C13_CloseFreesOnce ==
  /\ heap.code <= 1
  /\ heap.matchData <= 1
  /\ re.code = 0 =>
       /\ Close(re) = re
       /\ closeFrees(re, heap).code = heap.code
       /\ closeFrees(re, heap).matchData = heap.matchData

C13_Witness ==
  /\ pc = "returned" /\ last.op \in {"Close", "Regexp.Close"}
  /\ heap.closes >= 2 /\ heap.code = 1 /\ heap.matchData = 1

\* ---- C14
\* The handle is closed, or no match data could be allocated, or the engine
\* answered a negative code.
Undecided(r, md, m) == r.code = 0 \/ created(r, md).matchData = 0 \/ m.ret < 0

\* When a query cannot be decided, match leaves re.buf and the handle's code
\* as they were (a closed handle wholly), and the method reports no match:
\* MatchString false, Find* nil or "", FindAll* what was gathered so far,
\* ReplaceAll* what was built followed by the remaining text, Split what was
\* gathered followed by the rest of the subject.
C14_UndecidedIsNoMatch ==
  (/\ pc = "returned"
   /\ last.op \notin {"none", "Close"}
   /\ Undecided(last.was, last.md, last.m)) =>
    /\ re.buf = last.was.buf /\ re.mem = last.was.mem /\ re.code = last.was.code
    /\ last.was.code = 0 => re = last.was
    /\ CASE last.op = "MatchString" -> last.out = FALSE
         [] last.op \in {"FindString", "FindStringIndex", "FindStringSubmatch"} ->
              last.out = <<>>
         [] last.op \in {"FindAllString", "FindAllStringSubmatch", "FindAllStringIndex",
                         "FindAllStringSubmatchIndex"} -> last.out = last.repl
         [] last.op \in {"ReplaceAllString", "ReplaceAllFunc"} ->
              last.out = last.repl \o subject
         [] last.op = "Split" -> last.out = Append(last.repl, From(subject, last.pos))

C14_Witness ==
  /\ pc = "returned" /\ last.op = "ReplaceAllFunc"
  /\ last.was.code # 0 /\ last.md = 1 /\ last.m.ret = PCRE2_ERROR_MATCHLIMIT
  /\ last.repl = <<120>> /\ Len(subject) = MaxLen /\ last.out = last.repl \o subject
  /\ pcre2_match(re.pattern, subject).ret > 0

\* ---- C16
\* C16: for a template "$g", Expand and ExpandString do not fail, and append
\* to dst nothing when group g is out of range (2g+1 >= len(match)) or one
\* of its offsets is negative, and src[match[2g]:match[2g+1]] otherwise.
C16_ExpandSkipsAbsentGroups ==
  (/\ Returned({"Expand", "ExpandString"})
   /\ last.repl \in {<<36, 48>>, <<36, 49>>, <<36, 50>>}) =>
    /\ ~last.panic
    /\ last.out = last.dst \o GroupText(subject, last.mtch, last.repl[2] - 48)

\* ---- C17
\* The end of the longest run of digits of template from index i, the number
\* a run of digits writes in decimal, and the text a template stands for:
\* "$$" is "$", "$" and its longest run of digits the text of that group,
\* any other byte itself.
DigitRunEnd(template, i) ==
  CHOOSE e \in i..Len(template) :
    /\ \A k \in (i + 1)..e : template[k] \in 48..57
    /\ e < Len(template) => template[e + 1] \notin 48..57

RECURSIVE Decimal(_)
Decimal(ds) ==
  IF ds = <<>> THEN 0 ELSE Decimal(SubSeq(ds, 1, Len(ds) - 1)) * 10 + (ds[Len(ds)] - 48)

RECURSIVE Expansion(_, _, _, _)
Expansion(template, src, m, i) ==
  IF i >= Len(template) THEN <<>>
  ELSE IF template[i + 1] = 36 /\ i + 1 < Len(template) /\ template[i + 2] = 36
       THEN <<36>> \o Expansion(template, src, m, i + 2)
  ELSE IF template[i + 1] = 36 /\ i + 1 < Len(template) /\ template[i + 2] \in 48..57
       THEN GroupText(src, m, Decimal(SubSeq(template, i + 2, DigitRunEnd(template, i + 1))))
            \o Expansion(template, src, m, DigitRunEnd(template, i + 1))
  ELSE <<template[i + 1]>> \o Expansion(template, src, m, i + 1)

\* C17: when Expand or ExpandString returns, the result is dst followed by
\* the template's text: "$$" as one "$", "$" with its longest run of digits
\* as that group's text, every other byte (a "$" at the end, a "$" before a
\* byte that is no digit) as it is.
C17_ExpandAppendsTemplateText ==
  (Returned({"Expand", "ExpandString"}) /\ ~last.panic) =>
    /\ SubSeq(last.out, 1, Len(last.dst)) = last.dst
    /\ last.out = last.dst \o Expansion(last.repl, subject, last.mtch, 0)

C17_Witness ==
  /\ Returned({"Expand", "ExpandString"}) /\ ~last.panic
  /\ last.dst = <<120>> /\ last.repl = <<36, 50, 36, 49>>
  /\ subject = <<97, 98>> /\ last.mtch = <<0, 2, 0, 1, 1, 2>>
  /\ last.out = <<120, 98, 97>>

\* ---- C15
\* C15: the slice of offsets a Find*Index call returned has the contents it
\* was returned with after every later call on the PCREgexp.
C15_KeptOffsetsUnchanged == held # NoHeld => heldNow(re, held) = held.was

\* ---- C18
\* out without the bytes "<" and ">", and the texts out has between "<"
\* and ">", in order.
Unbracketed(out) == SelectSeq(out, LAMBDA c : c \notin {60, 62})

RECURSIVE BracketedFrom(_, _, _)
BracketedFrom(out, i, open) ==
  IF i > Len(out) THEN <<>>
  ELSE IF out[i] = 60 THEN BracketedFrom(out, i + 1, i)
  ELSE IF out[i] = 62 THEN <<SubSeq(out, open + 1, i - 1)>> \o BracketedFrom(out, i + 1, 0)
  ELSE BracketedFrom(out, i + 1, open)

\* C18: ReplaceAllFunc and ReplaceAllStringFunc call repl once for each
\* match of src, in order, with the match's text, and return src with each
\* match replaced by what repl returned for it: the values repl returned
\* stand in the result in the order of the calls, the rest of the result is
\* the rest of src, and the identity gives src back.
C18_FuncReplacesEachMatch ==
  Returned({"ReplaceAllFunc", "ReplaceAllStringFunc"}) =>
    /\ last.calls = FindAllString(re, subject, -1).ret
    /\ last.repl = "identity" => last.out = subject
    /\ last.repl = "bracket" =>
         /\ Unbracketed(last.out) = subject
         /\ BracketedFrom(last.out, 1, 0) = last.calls

\* ---- C19
\* C19: FindStringIndex and FindIndex return nil or exactly two offsets.
C19_FindIndexIsOnePair ==
  Returned({"FindStringIndex", "FindIndex"}) => last.out = <<>> \/ Len(last.out) = 2

\* ---- C20
\* C20: a non-nil result of FindSubmatchIndex / FindStringSubmatchIndex /
\* FindSubmatch / FindStringSubmatch has the length every non-nil result
\* of the same method on the same PCREgexp has, whatever the subject.
C20_SubmatchLengthFixed ==
  /\ (Returned({"FindSubmatchIndex", "FindStringSubmatchIndex"}) /\ last.out # <<>>) =>
       \A s2 \in Subjects :
         FindStringSubmatchIndex(re, s2).ret \in {<<>>}
         \/ Len(FindStringSubmatchIndex(re, s2).ret) = Len(last.out)
  /\ (Returned({"FindSubmatch", "FindStringSubmatch"}) /\ last.out # <<>>) =>
       \A s2 \in Subjects :
         FindStringSubmatch(re, s2).ret \in {<<>>}
         \/ Len(FindStringSubmatch(re, s2).ret) = Len(last.out)

\* ---- C21
\* The leftmost match of p in the whole of s that begins at or after k, and
\* where a scan stands after the span sp: at its end, one decoded codepoint
\* further when the span is empty.
findAt(p, s, k) == matchLeftmost(p, s, {i \in matchStarts(p, s) : i >= k})

Cursor(s, sp) ==
  IF sp[1] = sp[2] THEN sp[2] + DecodeRune(From(s, sp[2])).size ELSE sp[2]

\* C21: every span FindAllStringIndex / FindAllIndex reports is the leftmost
\* match, in the whole subject, at or after the cursor the span before it
\* leaves (0 for the first).
C21_ScanIsFindAtCursor ==
  Returned({"FindAllStringIndex", "FindAllIndex"}) =>
    \A k \in 1..Len(last.out) :
      /\ findAt(re.pattern, subject,
                IF k = 1 THEN 0 ELSE Cursor(subject, last.out[k - 1])).ret > 0
      /\ last.out[k] =
           SubSeq(findAt(re.pattern, subject,
                         IF k = 1 THEN 0 ELSE Cursor(subject, last.out[k - 1])).ovector, 1, 2)

C23_ScanStopsWhereDecodingFails ==
  Returned(IndexOps) =>
    \A k \in 1..Len(last.out) :
      (/\ last.out[k][1] = last.out[k][2]
       /\ \/ last.out[k][2] >= Len(subject)
          \/ DecodeRune(From(subject, last.out[k][2])).r = RuneError) => k = Len(last.out)

\* ---- C24
\* src with each of the spans[k..] replaced by repl, from the end prevEnd of
\* the span before.
RECURSIVE ReplacedSpans(_, _, _, _, _)
ReplacedSpans(src, repl, spans, k, prevEnd) ==
  IF k > Len(spans) THEN From(src, prevEnd)
  ELSE Slice(src, prevEnd, spans[k][1]) \o repl
       \o ReplacedSpans(src, repl, spans, k + 1, spans[k][2])

\* C24: ReplaceAllString and ReplaceAll replace exactly the spans that
\* FindAllStringIndex(src, -1) reports, in their order.
C24_ReplaceScansLikeFindAll ==
  Returned({"ReplaceAllString", "ReplaceAll"}) =>
    last.out = ReplacedSpans(subject, last.repl, FindAllStringIndex(re, subject, -1).ret, 1, 0)

\* C25: every loop iteration of a FindAll* or ReplaceAll* call either leaves
\* the loop or cuts at least one byte off the remaining suffix, which never
\* reaches past the end of the subject: the call terminates.
C25_ScanIterationShortens ==
  [][(pc \in ScanOps /\ pc' = pc) =>
       (split'.pos > split.pos /\ split'.pos <= Len(subject))]_vars

\* An unlimited scan has gone twice around its loop on empty matches.
C25_Witness ==
  /\ pc \in ScanOps
  /\ re.pattern \in {"", "a*"}
  /\ subject = <<98, 195, 169>>
  /\ split.pos = 3

\* C26: every iteration of Split's loop either leaves the loop or advances
\* pos.
C26_SplitIterationAdvances ==
  [][(pc = "Split" /\ pc' = "Split") => split'.pos > split.pos]_vars
\* C27: when the calls on one PCREgexp are serialized, every call returns
\* the offsets of the leftmost match in its own subject (nil when there is
\* none); unserialized, a call can return the offsets of the other call's
\* subject (C27_Witness).
OwnOffsets(i) == match(Compile(re.pattern), threads.g[i].subject).idx

C27_SerializedCallsReturnOwnOffsets ==
  threads.serial =>
    \A i \in Goroutines :
      threads.g[i].pc = "returned" => threads.g[i].out = OwnOffsets(i)

\* Two unserialized calls on different subjects, and one has returned the
\* offsets of the other's subject, which are not those of its own.
C27_Witness ==
  /\ ~threads.serial
  /\ \E i, j \in Goroutines :
       /\ i # j
       /\ threads.g[i].pc = "returned"
       /\ threads.g[j].pc = "copy"
       /\ threads.g[i].subject # threads.g[j].subject
       /\ threads.g[i].out = OwnOffsets(j)
       /\ threads.g[i].out # OwnOffsets(i)
\* C28: once Close has returned, every pcre2_code and every match data
\* object made for the PCREgexp has been handed to its free function
\* exactly once: none is left that nothing points to, none was freed twice.
C28_EveryObjectFreedOnce ==
  (rx = NoRegexp /\ Returned({"Close"})) =>
    /\ heap.leaked = 0
    /\ heap.code <= 1
    /\ heap.matchData <= 1
    /\ liveObjects(re) = 0

\* C29: UnmarshalText with a text that does not compile returns the error
\* and leaves the receiver as it was: the pattern, the handle with its
\* native objects, and what IsPCRE answers, for the PCREgexp and for the
\* facade Regexp.
C29_FailedUnmarshalKeepsReceiver ==
  [][(pc' = "returned" /\ last'.op \in {"UnmarshalText", "Regexp.UnmarshalText"}
        /\ ~Accepted(last'.repl)) =>
       /\ last'.out = TRUE
       /\ re' = re
       /\ rx' = rx
       /\ heap' = heap
       /\ IsPCRE(rx') = IsPCRE(rx)]_vars

\* Both receivers have refused a text: a live PCREgexp, or a facade Regexp
\* on the backtracking engine, is as it was before the call.
C29_Witness ==
  /\ pc = "returned"
  /\ \/ last.op = "UnmarshalText" /\ rx = NoRegexp
     \/ last.op = "Regexp.UnmarshalText" /\ IsPCRE(rx)
  /\ last.out = TRUE
  /\ last.repl = <<40>>
  /\ re.code # 0
\* An opening parenthesis that stands after an even run of backslashes.
HasUnescapedParen(p) ==
  \E i \in 0..(Len(p) - 1) : p[i + 1] = 40 /\ Unescaped(p, i)

\* C30: a classified pattern without an unescaped '(' is reported Native,
\* the empty pattern and a pattern with a backslash before a digit 1-9
\* included: Backtracking is reported only with an unescaped '('.
C30_NoParenIsNative ==
  /\ (clsVerdict # "none" /\ ~HasUnescapedParen(clsPattern)) => clsVerdict = "Native"
  /\ clsVerdict = "Backtracking" => HasUnescapedParen(clsPattern)

\* A pattern with an escaped '(' only and a backreference token, reported
\* Native.
C30_Witness ==
  /\ clsVerdict = "Native"
  /\ ~HasUnescapedParen(clsPattern)
  /\ HasBackrefToken(clsPattern)
  /\ \E k \in 1..Len(clsPattern) : clsPattern[k] = 40
====
